---------------------------- MODULE Spec2Model ----------------------------
(***************************************************************************)
(* A model of the streaming-test2 application (CameraAgent, AudioAgent,    *)
(* the FastAPI handlers of main.py) and of MultimodalAgent.send_message.   *)
(*                                                                         *)
(* Seven specifications share the module:                                  *)
(*   Spec       the CameraAgent: start(), stop(), the threads that run     *)
(*              _monitor_loop, the camera log file and the latest image;   *)
(*   SpecLive   Spec with every live thread taking steps for ever;         *)
(*   SpecAudio  the AudioAgent's sessions and the /events/{user_id}        *)
(*              connections on the asyncio event loop;                     *)
(*   SpecApp    main.py from startup_event on: the two agents, the         *)
(*              /events and /send endpoints;                               *)
(*   SpecStream SpecAudio with the streams event by event                  *)
(*              (agent_to_client_sse_handler) and POST /send;              *)
(*   SpecLogs   GET /logs/{log_type} over the states of the log files;     *)
(*   SpecMM     MultimodalAgent.send_message as a function of its inputs.  *)
(*                                                                         *)
(* A step of a thread holds at most one access to the state it shares with *)
(* other threads (self.running, self.chat, the files), so threads          *)
(* interleave between any two such accesses.  Handlers on the event loop   *)
(* interleave only where the code awaits something that is not this        *)
(* repository's own coroutine, or yields.  Time is not modelled: a call    *)
(* into the SDK or the capture device may take arbitrarily long, so the    *)
(* 10 s timeout of thread.join may expire wherever the thread is.          *)
(***************************************************************************)
EXTENDS Integers, Sequences, FiniteSets, TLC

\* ------------------------------------------------------------- bounds
MaxThreads == 2     \* start() calls that create a thread
MaxEvents == 2      \* change events process_frame_for_changes reports
MaxSess == 2        \* chat sessions model.start_chat creates
MaxFrame == 2       \* distinct frame contents
MaxConns == 2       \* requests to GET /events/{user_id}
MaxParts == 2       \* length of a list of parts given to send_message
MaxPartId == 2      \* distinct parts of one kind
MaxSends == 1       \* requests to POST /send/{user_id}
MaxRecs == 2        \* records in a log file
MaxLogs == 2        \* requests to GET /logs/{log_type}
MaxPieces == 2      \* live events that carry text
MaxTurns == 2       \* live events with turn_complete or interrupted

\* ------------------------------------------- sleeps, in tenths of a second
SleepPass == 1          \* time.sleep(0.1)
SleepModelError == 20   \* time.sleep(2)
SleepChatFail == 50     \* time.sleep(5)
SleepUnexpected == 50   \* time.sleep(5)

Tids == 1..MaxThreads
Conns == 1..MaxConns
Users == {"u1", "u2"}
None == 0

VARIABLES
    \* ---- CameraAgent
    running,      \* self.running
    thread,       \* self.thread: None or the thread started last
    nthreads,     \* threads created so far
    tpc,          \* position of each thread in _monitor_loop
    loc,          \* locals of each thread's current pass
    chat,         \* self.chat: None or a chat session
    nsess,        \* chat sessions created so far
    cap,          \* self.video_monitor.cap is set
    camFile,      \* logs/camera_log.json: its form on disk and the records
    image,        \* static/latest_camera_image.jpg
    nev,          \* change events reported so far
    mainpc,       \* the caller of start()/stop(): "idle" or "join"
    \* ---- history of the camera agent (not read by any action)
    sends,        \* per event, the chat.send_message calls made for it
    failedSess,   \* sessions on which a call raised
    failedEv,     \* events whose call or chat start failed
    usedFailed,   \* a call was started on a session of failedSess
    stopped,      \* threads that were alive when stop() cleared running
    \* ---- AudioAgent and the /events/{user_id} connections
    active,       \* active_adk_sessions: per user, None or a session
    queue,        \* per session, its live_request_queue: none, open, closed
    closer,       \* history: who closed or removed the session, and the
                  \* number n of close() calls on its queue
    cpc,          \* position of each connection's handler
    cuser,        \* the user_id of each connection
    cbound,       \* the session whose live_events the connection iterates
    status,       \* the HTTP status the connection was answered with
    lastEnd,      \* history: the stream that ended last, and why
    audFile,      \* logs/audio_log.json
    isAudio,      \* per session, the is_audio of its entry
    \* ---- MultimodalAgent.send_message
    mmChat,       \* self.chat: None or a chat session
    mmIn,         \* the arguments of the call
    mmCalls,      \* the chat.send_message calls made, each its list of parts
    mmOut,        \* what the call did: returned a text or raised
    mmReply,      \* what chat.send_message did
    \* ---- main.py: the globals and the requests of the other endpoints
    camInst,      \* camera_agent_instance is not None
    audInst,      \* audio_agent_instance is not None
    booted,       \* startup_event: "no", or how it ended: "noconfig", "yes"
    req,          \* the POST /send request waiting at `await request.json()`
    nsends,       \* POST /send requests received so far
    lastSend,     \* history: the last POST /send request and its answer
    enq,          \* history: per session, the messages put on its queue
    logReq,       \* the log_type of a GET /logs request
    logResp,      \* the answer of get_log_content
    \* ---- agent_to_client_sse_handler, per connection
    textTurn,     \* text_turn: the text pieces accumulated in this turn
    yielded,      \* history: the text pieces the handler has yielded
    due,          \* history: text_turn at each turn end that found text
    npieces,      \* text events received so far, over all sessions
    nturns        \* turn_complete / interrupted events received so far

camVars == <<running, thread, nthreads, tpc, loc, chat, nsess, cap, camFile,
             image, nev, mainpc, sends, failedSess, failedEv, usedFailed,
             stopped>>

audVars == <<active, queue, closer, cpc, cuser, cbound, status, lastEnd,
             audFile, isAudio>>

mmVars == <<mmChat, mmIn, mmCalls, mmOut, mmReply>>

strVars == <<textTurn, yielded, due, npieces, nturns>>

appVars == <<camInst, audInst, booted, req, nsends, lastSend, enq, logReq,
             logResp, strVars>>

vars == <<camVars, audVars, mmVars, appVars>>

\* ----------------------------------------------------------- helpers
NoLocals ==
    [changed |-> FALSE, bytes |-> None, ev |-> None, sess |-> None,
     called |-> FALSE, ret |-> "none", resp |-> "none", comment |-> "none",
     logs |-> <<>>, nread |-> 0, nlog |-> 0, nrec |-> 0, iofail |-> FALSE,
     slept |-> 0, outcome |-> "none"]

Alive(t) == tpc[t] \notin {"none", "done"}

\* EndPass that leaves the loop after an unexpected exception
EndPassLeavesLoop(t, l, secs, what) ==
    /\ loc' = [loc EXCEPT ![t] = [l EXCEPT !.slept = secs, !.outcome = what]]
    /\ tpc' = [tpc EXCEPT ![t] = IF what = "unexpected" THEN "release"
                                 ELSE "loop"]

\* A pass ends: the loop sleeps `secs` and goes back to `while self.running`.
EndPass(t, l, secs, what) ==
    /\ loc' = [loc EXCEPT ![t] = [l EXCEPT !.slept = secs, !.outcome = what]]
    /\ tpc' = [tpc EXCEPT ![t] = "loop"]


\* ------------------------------------------------------------ CameraAgent
CamInit ==
    /\ running = FALSE
    /\ thread = None
    /\ nthreads = 0
    /\ tpc = [t \in Tids |-> "none"]
    /\ loc = [t \in Tids |-> NoLocals]
    /\ chat = None
    /\ nsess = 0
    /\ cap = FALSE
    /\ camFile = [form |-> "ok", recs |-> <<>>]
    /\ image = None
    /\ nev = 0
    /\ mainpc = "idle"
    /\ sends = [e \in 1..MaxEvents |-> 0]
    /\ failedSess = {}
    /\ failedEv = {}
    /\ usedFailed = FALSE
    /\ stopped = {}

\* AudioAgent.__init__: no session, an empty audio log
AudInit ==
    /\ active = [u \in Users |-> None]
    /\ queue = [c \in Conns |-> "none"]
    /\ closer = [c \in Conns |-> [how |-> "none", conn |-> None, n |-> 0]]
    /\ cpc = [c \in Conns |-> "new"]
    /\ cuser = [c \in Conns |-> "none"]
    /\ cbound = [c \in Conns |-> None]
    /\ status = [c \in Conns |-> 0]
    /\ lastEnd = [conn |-> None, why |-> "none"]
    /\ audFile = [form |-> "ok", recs |-> <<>>]
    /\ isAudio = [c \in Conns |-> FALSE]

NoArg == [isNone |-> TRUE, val |-> <<>>]

MMIdle ==
    /\ mmChat = None
    /\ mmIn = [text |-> NoArg, image |-> NoArg, audio |-> NoArg,
               video |-> NoArg]
    /\ mmCalls = <<>>
    /\ mmOut = [kind |-> "none", val |-> ""]
    /\ mmReply = [kind |-> "none", val |-> ""]

NoReq == [user |-> "none", msg |-> "none", sess0 |-> None]

NoSend ==
    [user |-> "none", msg |-> "none", status |-> 0, detail |-> "none",
     sess |-> None, via |-> "none", sess0 |-> None, logged |-> FALSE]

NoLogResp ==
    [n |-> 0, type |-> "none", status |-> 0, kind |-> "none", body |-> <<>>,
     io |-> FALSE]

\* No stream handler has run yet.
StrInit ==
    /\ textTurn = [c \in Conns |-> <<>>]
    /\ yielded = [c \in Conns |-> <<>>]
    /\ due = [c \in Conns |-> <<>>]
    /\ npieces = 0
    /\ nturns = 0

\* main.py after a startup_event that created both agents; no request yet
AppInit ==
    /\ camInst = TRUE
    /\ audInst = TRUE
    /\ booted = "yes"
    /\ req = NoReq
    /\ nsends = 0
    /\ lastSend = NoSend
    /\ enq = [c \in Conns |-> 0]
    /\ logReq = "none"
    /\ logResp = NoLogResp
    /\ StrInit

Init == CamInit /\ AudInit /\ MMIdle /\ AppInit

\* start(): a new thread unless running is set.
Start ==
    /\ mainpc = "idle"
    /\ IF ~running
       THEN /\ nthreads < MaxThreads
            /\ running' = TRUE
            /\ nthreads' = nthreads + 1
            /\ thread' = nthreads + 1
            /\ tpc' = [tpc EXCEPT ![nthreads + 1] = "begin"]
       ELSE UNCHANGED <<running, nthreads, thread, tpc>>
    /\ UNCHANGED <<audVars, mmVars, appVars, stopped, loc, chat, nsess, cap, camFile, image, nev, mainpc, sends,
                   failedSess, failedEv, usedFailed>>

\* stop() up to thread.join(timeout=10).
StopBegin ==
    /\ mainpc = "idle"
    /\ IF running
       THEN /\ running' = FALSE
            /\ stopped' = stopped \cup {t \in Tids : Alive(t)}
            /\ IF thread # None /\ Alive(thread)
               THEN mainpc' = "join" /\ UNCHANGED thread
               ELSE thread' = None /\ UNCHANGED mainpc
       ELSE UNCHANGED <<running, thread, mainpc, stopped>>
    /\ UNCHANGED <<audVars, mmVars, appVars, nthreads, tpc, loc, chat, nsess, cap, camFile, image, nev,
                   sends, failedSess, failedEv, usedFailed>>

\* join returns because the thread has ended.
JoinReturn ==
    /\ mainpc = "join"
    /\ ~Alive(thread)
    /\ thread' = None
    /\ mainpc' = "idle"
    /\ UNCHANGED <<audVars, mmVars, appVars, stopped, running, nthreads, tpc, loc, chat, nsess, cap, camFile,
                   image, nev, sends, failedSess, failedEv, usedFailed>>

\* join returns after 10 s with the thread still alive.
JoinTimeout ==
    /\ mainpc = "join"
    /\ Alive(thread)
    /\ thread' = None
    /\ mainpc' = "idle"
    /\ UNCHANGED <<audVars, mmVars, appVars, stopped, running, nthreads, tpc, loc, chat, nsess, cap, camFile,
                   image, nev, sends, failedSess, failedEv, usedFailed>>

\* _monitor_loop: self.video_monitor.start_capture()
StartCapture(t) ==
    /\ tpc[t] = "begin"
    /\ \/ cap' = TRUE /\ tpc' = [tpc EXCEPT ![t] = "loop"]
       \/ UNCHANGED cap /\ tpc' = [tpc EXCEPT ![t] = "capfail"]
    /\ UNCHANGED <<audVars, mmVars, appVars, stopped, running, thread, nthreads, loc, chat, nsess, camFile,
                   image, nev, mainpc, sends, failedSess, failedEv, usedFailed>>

\* CaptureFailed that returns without clearing self.running
CaptureFailedKeepsRunning(t) ==
    /\ tpc[t] = "capfail"
    /\ tpc' = [tpc EXCEPT ![t] = "done"]
    /\ loc' = [loc EXCEPT ![t].outcome = "nocapture"]
    /\ UNCHANGED <<audVars, mmVars, appVars, stopped, running, thread,
                   nthreads, chat, nsess, cap, camFile, image, nev, mainpc,
                   sends, failedSess, failedEv, usedFailed>>

\* start_capture() returned False: self.running = False; return
CaptureFailed(t) ==
    /\ tpc[t] = "capfail"
    /\ running' = FALSE
    /\ tpc' = [tpc EXCEPT ![t] = "done"]
    /\ loc' = [loc EXCEPT ![t].outcome = "nocapture"]
    /\ UNCHANGED <<audVars, mmVars, appVars, stopped, thread, nthreads, chat, nsess, cap, camFile, image,
                   nev, mainpc, sends, failedSess, failedEv, usedFailed>>

\* while self.running:
LoopCheck(t) ==
    /\ tpc[t] = "loop"
    /\ tpc' = [tpc EXCEPT ![t] = IF running THEN "frame" ELSE "release"]
    /\ loc' = [loc EXCEPT ![t] = NoLocals]
    /\ UNCHANGED <<audVars, mmVars, appVars, stopped, running, thread, nthreads, chat, nsess, cap, camFile,
                   image, nev, mainpc, sends, failedSess, failedEv, usedFailed>>

\* changed, description, frame_bytes = process_frame_for_changes()
ProcessFrame(t) ==
    /\ tpc[t] = "frame"
    /\ \/ /\ EndPass(t, loc[t], SleepUnexpected, "unexpected")
          /\ UNCHANGED nev
       \/ \E ch \in BOOLEAN, b \in 0..MaxFrame :
            LET l == [loc[t] EXCEPT !.changed = ch, !.bytes = b,
                                    !.ev = IF ch THEN nev + 1 ELSE None]
            IN  /\ ch => nev < MaxEvents
                /\ nev' = IF ch THEN nev + 1 ELSE nev
                /\ IF b # None
                   THEN /\ loc' = [loc EXCEPT ![t] = l]
                        /\ tpc' = [tpc EXCEPT ![t] = "image"]
                   ELSE EndPass(t, l, SleepPass,
                                IF ch THEN "nobytes" ELSE "nochange")
    /\ UNCHANGED <<audVars, mmVars, appVars, stopped, running, thread, nthreads, chat, nsess, cap, camFile,
                   image, mainpc, sends, failedSess, failedEv, usedFailed>>

\* After the image block: `if changed and frame_bytes:` or the end of the
\* pass.
AfterImage(t) ==
    IF loc[t].changed
    THEN tpc' = [tpc EXCEPT ![t] = "check"] /\ UNCHANGED loc
    ELSE EndPass(t, loc[t], SleepPass, "nochange")

\* What the image file holds when it does not hold one frame: Unfinished
\* is a file just truncated or with the bytes of two writers mixed, CutShort
\* a file whose write failed.
Unfinished == -1
CutShort == -2

\* if frame_bytes: open(self.latest_image_path, 'wb') truncates the file;
\* an IOError is printed and the pass goes on.
SaveImage(t) ==
    /\ tpc[t] = "image"
    /\ \/ /\ image' = Unfinished
          /\ tpc' = [tpc EXCEPT ![t] = "imgwrite"]
          /\ UNCHANGED loc
       \/ /\ UNCHANGED image       \* open() failed
          /\ AfterImage(t)
    /\ UNCHANGED <<audVars, mmVars, appVars, stopped, running, thread, nthreads, chat, nsess, cap, camFile,
                   nev, mainpc, sends, failedSess, failedEv, usedFailed>>

\* another thread has the image file open for writing
OtherImageWriter(t) == \E o \in Tids \ {t} : tpc[o] = "imgwrite"

\* f_img.write(frame_bytes) and the end of the with block
WriteImage(t) ==
    /\ tpc[t] = "imgwrite"
    /\ \/ image' = loc[t].bytes
       \/ OtherImageWriter(t) /\ image' = Unfinished   \* two writers
       \/ image' = CutShort                            \* the write failed
    /\ AfterImage(t)
    /\ UNCHANGED <<audVars, mmVars, appVars, stopped, running, thread, nthreads, chat, nsess, cap, camFile,
                   nev, mainpc, sends, failedSess, failedEv, usedFailed>>

\* if changed and frame_bytes: if not self.chat:
CheckChat(t) ==
    /\ tpc[t] = "check"
    /\ tpc' = [tpc EXCEPT ![t] = IF chat = None THEN "startchat" ELSE "send"]
    /\ UNCHANGED <<audVars, mmVars, appVars, stopped, running, thread, nthreads, loc, chat, nsess, cap, camFile,
                   image, nev, mainpc, sends, failedSess, failedEv, usedFailed>>

\* _start_chat_session(): if not self.chat:
StartChatSession(t) ==
    /\ tpc[t] = "startchat"
    /\ tpc' = [tpc EXCEPT ![t] = IF chat = None THEN "starting" ELSE "send"]
    /\ UNCHANGED <<audVars, mmVars, appVars, stopped, running, thread, nthreads, loc, chat, nsess, cap, camFile,
                   image, nev, mainpc, sends, failedSess, failedEv, usedFailed>>

\* self.chat = self.model.start_chat(...) returns or raises; the loop's
\* handler of the exception sleeps 5 s and continues.
StartChatDone(t) ==
    /\ tpc[t] = "starting"
    /\ \/ /\ nsess < MaxSess
          /\ chat' = nsess + 1
          /\ nsess' = nsess + 1
          /\ tpc' = [tpc EXCEPT ![t] = "send"]
          /\ UNCHANGED <<loc, failedEv>>
       \/ /\ chat' = None
          /\ failedEv' = failedEv \cup {loc[t].ev}
          /\ EndPass(t, loc[t], SleepChatFail, "chatfail")
          /\ UNCHANGED nsess
    /\ UNCHANGED <<audVars, mmVars, appVars, stopped, running, thread, nthreads, cap, camFile, image, nev,
                   mainpc, sends, failedSess, usedFailed>>

\* ModelError without time.sleep(2)
ModelErrorNoSleep(t, l) ==
    /\ chat' = None
    /\ failedEv' = failedEv \cup {l.ev}
    /\ EndPass(t, l, SleepPass, "modelerr")

\* ModelError that tries the same event again instead of ending the pass
ModelErrorRetries(t, l) ==
    /\ chat' = None
    /\ failedEv' = failedEv \cup {l.ev}
    /\ loc' = [loc EXCEPT ![t] = l]
    /\ tpc' = [tpc EXCEPT ![t] = "check"]

\* the body of `except Exception` around the model call:
\* self.chat = None; time.sleep(2), then the time.sleep(0.1) of the pass
ModelError(t, l) ==
    /\ chat' = None
    /\ failedEv' = failedEv \cup {l.ev}
    /\ EndPass(t, l, SleepModelError + SleepPass, "modelerr")

\* response = self.chat.send_message([prompt_text, image_part]): the call
SendStart(t) ==
    /\ tpc[t] = "send"
    /\ IF chat = None
       THEN /\ loc' = [loc EXCEPT ![t].ret = "raised"]   \* AttributeError
            /\ tpc' = [tpc EXCEPT ![t] = "except"]
            /\ UNCHANGED <<sends, usedFailed>>
       ELSE /\ loc' = [loc EXCEPT ![t].sess = chat, ![t].called = TRUE]
            /\ tpc' = [tpc EXCEPT ![t] = "incall"]
            /\ sends' = [sends EXCEPT ![loc[t].ev] = @ + 1]
            /\ usedFailed' = (usedFailed \/ chat \in failedSess)
    /\ UNCHANGED <<audVars, mmVars, appVars, stopped, running, thread, nthreads, chat, nsess, cap, camFile,
                   image, nev, mainpc, failedSess, failedEv>>

Responses == {"text", "blank", "empty", "unreadable"}

\* SendReturn that logs nothing when the model gave no text
SendReturnSkipsEmpty(t) ==
    /\ tpc[t] = "incall"
    /\ \/ /\ loc' = [loc EXCEPT ![t].ret = "raised"]
          /\ tpc' = [tpc EXCEPT ![t] = "except"]
          /\ failedSess' = failedSess \cup {loc[t].sess}
       \/ \E r \in Responses :
            LET l == [loc[t] EXCEPT !.ret = "ok", !.resp = r]
            IN  /\ CASE r = "unreadable" ->
                          /\ loc' = [loc EXCEPT ![t] = l]
                          /\ tpc' = [tpc EXCEPT ![t] = "except"]
                     [] r = "text" ->
                          /\ loc' = [loc EXCEPT ![t] =
                                        [l EXCEPT !.comment = "text"]]
                          /\ tpc' = [tpc EXCEPT ![t] = "logread"]
                     [] OTHER -> EndPass(t, l, SleepPass, "sent")
                /\ UNCHANGED failedSess
    /\ UNCHANGED <<audVars, mmVars, appVars, stopped, running, thread, nthreads, chat, nsess, cap,
                   camFile, image, nev, mainpc, sends, failedEv, usedFailed>>

\* the call returns or raises; the comment is read from the response, which
\* raises too when the response has no readable text part
SendReturn(t) ==
    /\ tpc[t] = "incall"
    /\ \/ /\ loc' = [loc EXCEPT ![t].ret = "raised"]
          /\ tpc' = [tpc EXCEPT ![t] = "except"]
          /\ failedSess' = failedSess \cup {loc[t].sess}
       \/ \E r \in Responses :
            LET l == [loc[t] EXCEPT !.ret = "ok", !.resp = r]
            IN  /\ IF r = "unreadable"
                   THEN /\ loc' = [loc EXCEPT ![t] = l]
                        /\ tpc' = [tpc EXCEPT ![t] = "except"]
                   ELSE /\ loc' = [loc EXCEPT ![t] =
                               [l EXCEPT !.comment = IF r = "text" THEN "text"
                                                     ELSE "placeholder"]]
                        /\ tpc' = [tpc EXCEPT ![t] = "logread"]
                /\ UNCHANGED failedSess
    /\ UNCHANGED <<audVars, mmVars, appVars, stopped, running, thread, nthreads, chat, nsess, cap, camFile,
                   image, nev, mainpc, sends, failedEv, usedFailed>>

\* except Exception as e: the handler of the model call's try block
HandleModelError(t) ==
    /\ tpc[t] = "except"
    /\ ModelError(t, loc[t])
    /\ UNCHANGED <<audVars, mmVars, appVars, stopped, running, thread, nthreads, nsess, cap, camFile, image,
                   nev, mainpc, sends, failedSess, usedFailed>>

\* what json.load gives _log_change: a file cut short is a JSONDecodeError
LoadedLogs(f) == IF f.form = "ok" THEN f.recs ELSE <<>>

\* _log_change: read the current logs and append the entry
LogRead(t) ==
    /\ tpc[t] = "logread"
    /\ \/ /\ loc' = [loc EXCEPT ![t].nlog = 1,
                                ![t].nread = Len(LoadedLogs(camFile)),
                                ![t].logs = Append(LoadedLogs(camFile),
                                    [ev |-> loc[t].ev,
                                     comment |-> loc[t].comment])]
          /\ tpc' = [tpc EXCEPT ![t] = "logopen"]
       \/ EndPass(t, [loc[t] EXCEPT !.nlog = 1, !.iofail = TRUE],
                  SleepPass, "sent")
    /\ UNCHANGED <<audVars, mmVars, appVars, stopped, running, thread, nthreads, chat, nsess, cap, camFile,
                   image, nev, mainpc, sends, failedSess, failedEv, usedFailed>>

\* _log_change: open(self.log_file, 'w') truncates the file
LogOpenW(t) ==
    /\ tpc[t] = "logopen"
    /\ \/ /\ camFile' = [form |-> "empty", recs |-> <<>>]
          /\ tpc' = [tpc EXCEPT ![t] = "logdump"]
          /\ UNCHANGED loc
       \/ /\ EndPass(t, [loc[t] EXCEPT !.iofail = TRUE], SleepPass, "sent")
          /\ UNCHANGED camFile
    /\ UNCHANGED <<audVars, mmVars, appVars, stopped, running, thread, nthreads, chat, nsess, cap, image, nev,
                   mainpc, sends, failedSess, failedEv, usedFailed>>

\* _log_change: json.dump writes the text piece by piece
LogDump(t) ==
    /\ tpc[t] = "logdump"
    /\ \/ /\ camFile' = [form |-> "partial", recs |-> loc[t].logs]
          /\ tpc' = [tpc EXCEPT ![t] = "logclose"]
          /\ UNCHANGED loc
       \/ /\ EndPass(t, [loc[t] EXCEPT !.iofail = TRUE], SleepPass, "sent")
          /\ UNCHANGED camFile
    /\ UNCHANGED <<audVars, mmVars, appVars, stopped, running, thread, nthreads, chat, nsess, cap, image, nev,
                   mainpc, sends, failedSess, failedEv, usedFailed>>

\* another thread has the log file open for writing
OtherWriter(t) == \E o \in Tids \ {t} : tpc[o] \in {"logdump", "logclose"}

\* _log_change: the with block ends, the text is complete on disk
LogClose(t) ==
    /\ tpc[t] = "logclose"
    /\ \/ camFile' = [form |-> "ok", recs |-> loc[t].logs]
       \/ /\ OtherWriter(t)      \* two writers: the texts are mixed
          /\ camFile' = [form |-> "partial", recs |-> loc[t].logs]
    /\ EndPass(t, [loc[t] EXCEPT !.nrec = 1], SleepPass, "sent")
    /\ UNCHANGED <<audVars, mmVars, appVars, stopped, running, thread, nthreads, chat, nsess, cap, image, nev,
                   mainpc, sends, failedSess, failedEv, usedFailed>>

\* after the loop: if self.video_monitor.cap: stop_capture()
Release(t) ==
    /\ tpc[t] = "release"
    /\ cap' = FALSE
    /\ tpc' = [tpc EXCEPT ![t] = "done"]
    /\ UNCHANGED <<audVars, mmVars, appVars, stopped, running, thread, nthreads, loc, chat, nsess, camFile,
                   image, nev, mainpc, sends, failedSess, failedEv, usedFailed>>

MonitorStep(t) ==
    \/ StartCapture(t) \/ CaptureFailed(t) \/ LoopCheck(t) \/ ProcessFrame(t)
    \/ SaveImage(t) \/ WriteImage(t) \/ CheckChat(t) \/ StartChatSession(t) \/ StartChatDone(t)
    \/ SendStart(t) \/ SendReturn(t) \/ HandleModelError(t) \/ LogRead(t)
    \/ LogOpenW(t) \/ LogDump(t) \/ LogClose(t) \/ Release(t)

Next ==
    \/ Start \/ StopBegin \/ JoinReturn \/ JoinTimeout
    \/ \E t \in Tids : MonitorStep(t)

Spec == Init /\ [][Next]_vars


\* -------------------------------------------------------------- AudioAgent
\* StopAdkSession that closes the queue and keeps the entry
StopAdkSessionKeepsEntry(u, how, c) ==
    IF active[u] # None
    THEN /\ queue' = [queue EXCEPT ![active[u]] = "closed"]
         /\ closer' = [closer EXCEPT ![active[u]] =
                         [how |-> how, conn |-> c, n |-> @.n + 1]]
         /\ UNCHANGED <<active, isAudio>>
    ELSE UNCHANGED <<queue, closer, active, isAudio>>

\* stop_adk_session(u): what it leaves of active, queue and closer.  It
\* awaits nothing, so it runs in one piece.  isAudio is a field of the
\* entry and goes with it.
StopAdkSession(u, how, c) ==
    IF active[u] # None
    THEN /\ queue' = [queue EXCEPT ![active[u]] = "closed"]
         /\ closer' = [closer EXCEPT ![active[u]] =
                         [how |-> how, conn |-> c, n |-> @.n + 1]]
         /\ active' = [active EXCEPT ![u] = None]
         /\ isAudio' = [isAudio EXCEPT ![active[u]] = FALSE]
    ELSE UNCHANGED <<queue, closer, active, isAudio>>

\* GET /events/{u}: start_adk_session(u) up to `await create_session(...)`.
\* create_session is a coroutine of the SDK's session service: awaiting it
\* may hand control to the event loop, which may run other handlers before
\* it returns.  The session of connection c is named c.
Connect(c, u) ==
    /\ audInst
    /\ cpc[c] = "new"
    /\ cuser' = [cuser EXCEPT ![c] = u]
    /\ StopAdkSession(u, "start", c)
    /\ \/ cpc' = [cpc EXCEPT ![c] = "creating"] /\ UNCHANGED status
       \/ /\ cpc' = [cpc EXCEPT ![c] = "done"]     \* InMemoryRunner raised
          /\ status' = [status EXCEPT ![c] = 500]
    /\ UNCHANGED <<camVars, mmVars, appVars, cbound, lastEnd, audFile>>

\* CreateDone whose except clause leaves the entry of the user in place
CreateDoneLeavesEntry(c) ==
    LET u == cuser[c] IN
    /\ cpc[c] = "creating"
    /\ \/ /\ queue' = [queue EXCEPT ![c] = "open"]
          /\ active' = [active EXCEPT ![u] = c]
          /\ closer' = IF active[u] # None
                       THEN [closer EXCEPT ![active[u]] =
                                [how |-> "overwritten", conn |-> c, n |-> @.n]]
                       ELSE closer
          /\ \E a \in BOOLEAN :
                isAudio' = [s \in Conns |->
                              IF s = c THEN a
                              ELSE IF s = active[u] THEN FALSE
                              ELSE isAudio[s]]
          /\ status' = [status EXCEPT ![c] = 200]
          /\ cpc' = [cpc EXCEPT ![c] = "respond"]
       \/ /\ status' = [status EXCEPT ![c] = 500]
          /\ cpc' = [cpc EXCEPT ![c] = "done"]
          /\ UNCHANGED <<active, closer, isAudio, queue>>
    /\ UNCHANGED <<camVars, mmVars, appVars, cuser, cbound, lastEnd, audFile>>

\* start_adk_session(u) from the return of create_session to its own return
\* or to its except clause; audio_sse_endpoint answers.
CreateDone(c) ==
    LET u == cuser[c] IN
    /\ cpc[c] = "creating"
    /\ \/ /\ queue' = [queue EXCEPT ![c] = "open"]
          /\ active' = [active EXCEPT ![u] = c]
          /\ closer' = IF active[u] # None
                       THEN [closer EXCEPT ![active[u]] =
                                [how |-> "overwritten", conn |-> c, n |-> @.n]]
                       ELSE closer
          /\ \E a \in BOOLEAN :
                isAudio' = [s \in Conns |->
                              IF s = c THEN a
                              ELSE IF s = active[u] THEN FALSE
                              ELSE isAudio[s]]
          /\ status' = [status EXCEPT ![c] = 200]
          /\ cpc' = [cpc EXCEPT ![c] = "respond"]
       \/ /\ active' = [active EXCEPT ![u] = None]   \* del in except
          /\ closer' = IF active[u] # None
                       THEN [closer EXCEPT ![active[u]] =
                                [how |-> "deleted", conn |-> c, n |-> @.n]]
                       ELSE closer
          /\ status' = [status EXCEPT ![c] = 500]
          /\ cpc' = [cpc EXCEPT ![c] = "done"]
          /\ isAudio' = [s \in Conns |->
                           IF s = active[u] THEN FALSE ELSE isAudio[s]]
          /\ UNCHANGED queue
    /\ UNCHANGED <<camVars, mmVars, appVars, cuser, cbound, lastEnd, audFile>>

\* event_generator starts agent_to_client_sse_handler(u), which takes the
\* live_events of the session registered for u at that moment.
StreamBegin(c) ==
    /\ cpc[c] = "respond"
    /\ IF active[cuser[c]] = None
       THEN cpc' = [cpc EXCEPT ![c] = "errored"] /\ UNCHANGED cbound
       ELSE /\ cpc' = [cpc EXCEPT ![c] = "streaming"]
            /\ cbound' = [cbound EXCEPT ![c] = active[cuser[c]]]
    /\ UNCHANGED <<camVars, mmVars, appVars, isAudio, active, queue, closer, cuser, status,
                   lastEnd, audFile>>

\* How the stream may end where the handler is: after the error message,
\* while it waits for the next live event, or while it is suspended at a
\* yield (event_generator breaks on a disconnect, or the task is cancelled).
EndReasons(c) ==
    IF cpc[c] = "errored" THEN {"returned"}
    ELSE IF cpc[c] = "streaming"
    THEN {"exhausted", "disconnected", "cancelled", "exception"}
    ELSE {"disconnected", "cancelled"}

\* the stream ends; finally: await stop_adk_session(user_id)
StreamEnd(c) ==
    /\ cpc[c] \in {"streaming", "errored", "ystatus", "ytext"}
    /\ \E r \in EndReasons(c) : lastEnd' = [conn |-> c, why |-> r]
    /\ StopAdkSession(cuser[c], "cleanup", c)
    /\ cpc' = [cpc EXCEPT ![c] = "done"]
    /\ UNCHANGED <<camVars, mmVars, appVars, cuser, cbound, status, audFile>>

NextAudio ==
    \/ \E c \in Conns : CreateDone(c) \/ StreamBegin(c) \/ StreamEnd(c)
    \/ \E c \in Conns, u \in Users : Connect(c, u)

SpecAudio == Init /\ [][NextAudio]_vars


\* ------------------------------------------ main.py: startup, POST /send
\* The state before startup_event: no agent, nothing requested.
InitApp ==
    /\ CamInit /\ AudInit /\ MMIdle
    /\ camInst = FALSE
    /\ audInst = FALSE
    /\ booted = "no"
    /\ req = NoReq
    /\ nsends = 0
    /\ lastSend = NoSend
    /\ enq = [c \in Conns |-> 0]
    /\ logReq = "none"
    /\ logResp = NoLogResp
    /\ StrInit

\* Startup that goes on to create the agents without PROJECT_ID or LOCATION
StartupWithoutConfigCheck ==
    /\ booted = "no"
    /\ booted' \in {"noconfig", "yes"}
    /\ camInst' = FALSE
    /\ audInst' \in BOOLEAN
    /\ UNCHANGED <<audVars, mmVars, camVars, req, nsends, lastSend, enq,
                   logReq, logResp, strVars>>

\* startup_event: nothing when PROJECT_ID or LOCATION is missing; otherwise
\* CameraAgent(...) and start() in one try block, AudioAgent(...) in another.
Startup ==
    /\ booted = "no"
    /\ \/ /\ booted' = "noconfig"
          /\ UNCHANGED <<camInst, audInst, running, thread, nthreads, tpc>>
       \/ /\ booted' = "yes"
          /\ \/ /\ camInst' = TRUE          \* created and started
                /\ running' = TRUE
                /\ nthreads' = nthreads + 1
                /\ thread' = nthreads + 1
                /\ tpc' = [tpc EXCEPT ![nthreads + 1] = "begin"]
             \/ /\ camInst' = FALSE         \* CameraAgent(...) raised
                /\ UNCHANGED <<running, thread, nthreads, tpc>>
             \/ /\ camInst' = FALSE         \* thread.start() raised
                /\ running' = TRUE
                /\ UNCHANGED <<thread, nthreads, tpc>>
          /\ audInst' \in BOOLEAN           \* AudioAgent(...) returned or raised
    /\ UNCHANGED <<audVars, mmVars, loc, chat, nsess, cap, camFile, image, nev,
                   mainpc, sends, failedSess, failedEv, usedFailed, stopped,
                   req, nsends, lastSend, enq, logReq, logResp, strVars>>

\* GET /events/{u} without an AudioAgent: 503
EventsUnavailable(c, u) ==
    /\ booted # "no" /\ ~audInst
    /\ cpc[c] = "new"
    /\ cuser' = [cuser EXCEPT ![c] = u]
    /\ status' = [status EXCEPT ![c] = 503]
    /\ cpc' = [cpc EXCEPT ![c] = "done"]
    /\ UNCHANGED <<camVars, mmVars, appVars, active, queue, closer, cbound,
                   lastEnd, audFile, isAudio>>

\* The bodies a client may post: not JSON, JSON that is not an object, and
\* objects by what their mime_type and data are.
Messages ==
    {"badjson", "notobject", "nomime", "nodata", "text", "emptytext",
     "textnotstr", "audio", "badaudio", "othermime", "mimenotstr"}

Reply(st, d, s, via, lg) ==
    [status |-> st, detail |-> d, sess |-> s, via |-> via, logged |-> lg]

\* LogTranscription that writes the new record alone
LogTranscriptionDropsOld(f, rec) == [form |-> "ok", recs |-> <<rec>>]

\* what _log_transcription leaves on disk: the records read and the new one
LogTranscription(f, rec) == [form |-> "ok", recs |-> Append(LoadedLogs(f), rec)]

\* ClientToAgent that uses the session registered when the request arrived
ClientToAgentStale(u, m) ==
    IF req.sess0 = None
    THEN {Reply(400, "Session not found.", None, "none", FALSE)}
    ELSE {Reply(200, "sent", req.sess0, "content", FALSE)}

\* client_to_agent_handler(u, client_msg) and the answer the endpoint makes
\* of its result: the answers it may give, each with the session on whose
\* queue the message was put (None: nothing was put), the queue method
\* used (send_content or send_realtime) and whether the text was logged.
\* An exception it lets through is answered 500.
ClientToAgent(u, m) ==
    LET s == active[u]
        unsupported ==
            Reply(400, "Unsupported mime/session.", None, "none", FALSE)
        raised == Reply(500, "exception", None, "none", FALSE)
    IN  IF s = None
        THEN {Reply(400, "Session not found.", None, "none", FALSE)}
        ELSE CASE m = "notobject" ->     \* client_msg.get: AttributeError
                    {raised}
               [] m \in {"nomime", "nodata"} ->
                    {Reply(400, "Invalid message.", None, "none", FALSE)}
               [] m = "text" -> {Reply(200, "sent", s, "content", TRUE)}
               [] m = "emptytext" -> {Reply(200, "sent", s, "content", FALSE)}
               [] m = "textnotstr" ->    \* Part.from_text(data) or data[:50]
                    {raised, Reply(500, "exception", s, "content", FALSE)}
               [] m = "mimenotstr" ->    \* mime.startswith: AttributeError
                    {raised}
               [] m = "audio" ->
                    IF isAudio[s]
                    THEN {Reply(200, "sent", s, "realtime", FALSE)}
                    ELSE {unsupported}
               [] m = "badaudio" ->
                    IF isAudio[s]
                    THEN {Reply(400, "Audio error", None, "none", FALSE)}
                    ELSE {unsupported}
               [] OTHER -> {unsupported}

\* POST /send/{u}: 503 without an AudioAgent, else `await request.json()`
SendBegin(u, m) ==
    /\ booted # "no"
    /\ req = NoReq
    /\ nsends < MaxSends
    /\ nsends' = nsends + 1
    /\ IF ~audInst
       THEN /\ lastSend' = [user |-> u, msg |-> m, status |-> 503,
                            detail |-> "AudioAgent not available.",
                            sess |-> None, via |-> "none", sess0 |-> None,
                            logged |-> FALSE]
            /\ UNCHANGED req
       ELSE /\ req' = [user |-> u, msg |-> m, sess0 |-> active[u]]
            /\ UNCHANGED lastSend
    /\ UNCHANGED <<camVars, audVars, mmVars, camInst, audInst, booted, enq,
                   logReq, logResp, strVars>>

\* request.json() returns or raises JSONDecodeError; then the handler runs
\* to its end without awaiting anything, and the endpoint answers.
SendHandle ==
    /\ req # NoReq
    /\ req' = NoReq
    /\ \E r \in IF req.msg = "badjson"
                THEN {Reply(400, "Invalid JSON.", None, "none", FALSE)}
                ELSE ClientToAgent(req.user, req.msg) :
          /\ lastSend' = [user |-> req.user, msg |-> req.msg,
                          status |-> r.status, detail |-> r.detail,
                          sess |-> r.sess, via |-> r.via,
                          sess0 |-> req.sess0,
                          logged |-> r.logged]
          /\ enq' = IF r.sess # None THEN [enq EXCEPT ![r.sess] = @ + 1]
                    ELSE enq
          /\ audFile' = IF r.logged
                        THEN LogTranscription(audFile,
                                [speaker |-> "user", text |-> <<req.msg>>])
                        ELSE audFile
    /\ UNCHANGED <<camVars, mmVars, camInst, audInst, booted, nsends, logReq,
                   logResp, strVars, active, queue, closer, cpc, cuser,
                   cbound, status, lastEnd, isAudio>>

\* The server from its start: startup_event, then requests.
NextApp ==
    \/ Startup
    \/ \E c \in Conns, u \in Users : EventsUnavailable(c, u)
    \/ \E u \in Users, m \in Messages : SendBegin(u, m)
    \/ SendHandle
    \/ NextAudio

SpecApp == InitApp /\ [][NextApp]_vars


\* ------------------------------- AudioAgent.agent_to_client_sse_handler
\* The text of the i-th text event; every piece is distinct.
Piece(i) == <<"p1", "p2", "p3">>[i]

\* A live event arrives for the handler of connection c, which runs up to
\* its next yield: the status message for turn_complete or interrupted, the
\* text/plain message for a part with text.  Events without text (audio
\* only, no part) change nothing that is modelled.
StreamEvent(c) ==
    /\ cpc[c] = "streaming"
    /\ \/ /\ nturns < MaxTurns
          /\ nturns' = nturns + 1
          /\ cpc' = [cpc EXCEPT ![c] = "ystatus"]
          /\ due' = IF textTurn[c] # <<>>
                    THEN [due EXCEPT ![c] = Append(@, textTurn[c])]
                    ELSE due
          /\ UNCHANGED <<yielded, npieces>>
       \/ /\ npieces < MaxPieces
          /\ npieces' = npieces + 1
          /\ cpc' = [cpc EXCEPT ![c] = "ytext"]
          /\ yielded' = [yielded EXCEPT ![c] = Append(@, Piece(npieces + 1))]
          /\ UNCHANGED <<nturns, due>>
    /\ UNCHANGED <<camVars, mmVars, camInst, audInst, booted, req, nsends,
                   lastSend, enq, logReq, logResp, textTurn, active, queue,
                   closer, cuser, cbound, status, lastEnd, audFile, isAudio>>

\* The consumer asks for the next item, the handler goes on after its
\* yield: after the status message it logs text_turn if there is any and
\* resets it; after a text message it appends the text to text_turn.
StreamResume(c) ==
    /\ cpc[c] \in {"ystatus", "ytext"}
    /\ cpc' = [cpc EXCEPT ![c] = "streaming"]
    /\ IF cpc[c] = "ystatus"
       THEN /\ audFile' = IF textTurn[c] # <<>>
                          THEN LogTranscription(audFile,
                                  [speaker |-> "agent", text |-> textTurn[c]])
                          ELSE audFile
            /\ textTurn' = [textTurn EXCEPT ![c] = <<>>]
       ELSE /\ textTurn' = [textTurn EXCEPT ![c] =
                               Append(@, yielded[c][Len(yielded[c])])]
            /\ UNCHANGED audFile
    /\ UNCHANGED <<camVars, mmVars, camInst, audInst, booted, req, nsends,
                   lastSend, enq, logReq, logResp, yielded, due, npieces,
                   nturns, active, queue, closer, cuser, cbound, status,
                   lastEnd, isAudio>>

\* The AudioAgent with its streams event by event, and POST /send.
NextStream ==
    \/ NextAudio
    \/ \E c \in Conns : StreamEvent(c) \/ StreamResume(c)
    \/ \E u \in Users : SendBegin(u, "text")
    \/ SendHandle

SpecStream == Init /\ [][NextStream]_vars


\* ------------------------------------------------ main.py: GET /logs/...
\* The log_type values a client may ask for.
LogTypes == {"camera", "audio", "video"}

\* The file a valid log_type names.
LogFile(lt) == IF lt = "camera" THEN camFile ELSE audFile

\* The records the writers append, in the order they append them.
LogRecords(lt) ==
    IF lt = "camera"
    THEN <<[ev |-> 1, comment |-> "ok"], [ev |-> 2, comment |-> "ok"]>>
    ELSE <<[speaker |-> "user", text |-> <<"text">>],
           [speaker |-> "user", text |-> <<"text">>]>>

\* What a log file may be on disk: missing, empty, a JSON text cut short,
\* or the complete JSON text of a list of records.
FileStates(lt) ==
    {[form |-> f, recs |-> <<>>] : f \in {"missing", "empty"}}
    \cup {[form |-> f, recs |-> SubSeq(LogRecords(lt), 1, k)] :
            f \in {"partial", "ok"}, k \in 0..MaxRecs}

\* The server with its log files in any state, no request yet.
InitLogs ==
    /\ CamInit /\ AudInit /\ MMIdle /\ AppInit
    /\ camFile \in FileStates("camera")
    /\ audFile \in FileStates("audio")

\* The body of the answer when the file could not be read or parsed.
ParseError(lt) == <<[error |-> "Failed to parse " \o lt \o "_log.json"]>>

\* get_log_content up to the open: 404 for another type, [] when the file
\* is missing or has size 0.
GetLogBegin(lt) ==
    /\ logReq = "none"
    /\ logResp.n < MaxLogs
    /\ IF lt \notin {"camera", "audio"}
       THEN /\ logResp' = [n |-> logResp.n + 1, type |-> lt, status |-> 404,
                           kind |-> "detail", body |-> <<>>, io |-> FALSE]
            /\ UNCHANGED logReq
       ELSE IF LogFile(lt).form \in {"missing", "empty"}
       THEN /\ logResp' = [n |-> logResp.n + 1, type |-> lt, status |-> 200,
                           kind |-> "list", body |-> <<>>, io |-> FALSE]
            /\ UNCHANGED logReq
       ELSE /\ logReq' = lt
            /\ UNCHANGED logResp
    /\ UNCHANGED <<camVars, audVars, mmVars, camInst, audInst, booted, req,
                   nsends, lastSend, enq, strVars>>

\* GetLogLoad that lets the exception through
GetLogLoadRaises ==
    /\ logReq # "none"
    /\ logReq' = "none"
    /\ \E io \in BOOLEAN :
          logResp' =
             IF LogFile(logReq).form = "ok" /\ ~io
             THEN [n |-> logResp.n + 1, type |-> logReq, status |-> 200,
                   kind |-> "list", body |-> LogFile(logReq).recs,
                   io |-> io]
             ELSE [n |-> logResp.n + 1, type |-> logReq, status |-> 500,
                   kind |-> "detail", body |-> <<>>, io |-> io]
    /\ UNCHANGED <<camVars, audVars, mmVars, camInst, audInst, booted, req,
                   nsends, lastSend, enq, strVars>>

\* get_log_content from the open on: the content json.load gives, or the
\* error list when open, read or json.load raises (io: open or read raised).
GetLogLoad ==
    /\ logReq # "none"
    /\ logReq' = "none"
    /\ \E io \in BOOLEAN :
          logResp' =
             IF LogFile(logReq).form = "ok" /\ ~io
             THEN [n |-> logResp.n + 1, type |-> logReq, status |-> 200,
                   kind |-> "list", body |-> LogFile(logReq).recs,
                   io |-> io]
             ELSE [n |-> logResp.n + 1, type |-> logReq, status |-> 200,
                   kind |-> "list", body |-> ParseError(logReq), io |-> io]
    /\ UNCHANGED <<camVars, audVars, mmVars, camInst, audInst, booted, req,
                   nsends, lastSend, enq, strVars>>

\* A writer of a log file (_log_change, _log_transcription) rewriting it:
\* open(..., 'w') truncates, json.dump writes the text piece by piece, the
\* end of the with block leaves the complete text.
RewriteLog(lt) ==
    /\ lt \in {"camera", "audio"}
    /\ \E f \in FileStates(lt) :
          /\ \/ f.form = "empty"
             \/ LogFile(lt).form = "empty" /\ f.form = "partial"
             \/ /\ LogFile(lt).form = "partial" /\ f.form = "ok"
                /\ f.recs = LogFile(lt).recs
          /\ IF lt = "camera"
             THEN camFile' = f /\ UNCHANGED audFile
             ELSE audFile' = f /\ UNCHANGED camFile
    /\ UNCHANGED <<mmVars, appVars, running, thread, nthreads, tpc, loc, chat,
                   nsess, cap, image, nev, mainpc, sends, failedSess,
                   failedEv, usedFailed, stopped, active, queue, closer, cpc,
                   cuser, cbound, status, lastEnd, isAudio>>

NextLogs ==
    \/ \E lt \in LogTypes : GetLogBegin(lt)
    \/ GetLogLoad
    \/ \E lt \in LogTypes : RewriteLog(lt)

SpecLogs == InitLogs /\ [][NextLogs]_vars


\* ------------------------------------------- MultimodalAgent.send_message
\* An argument is None or a value: a text for text_prompt, a list of parts
\* for image_parts, audio_parts and video_parts.
Texts == {"", "a", "b"}
ReplyTexts == {"", "r1", "r2"}
Exceptions == {"E1", "E2"}

PartLists(kind) ==
    UNION {[1..n -> {[kind |-> kind, id |-> i] : i \in 1..MaxPartId}]
           : n \in 0..MaxParts}

TextArgs == {NoArg} \cup {[isNone |-> FALSE, val |-> t] : t \in Texts}
ListArgs(kind) ==
    {NoArg} \cup {[isNone |-> FALSE, val |-> l] : l \in PartLists(kind)}

\* Python's truth value of an argument: None, "" and [] are false.
TruthyText(a) == ~a.isNone /\ a.val # ""
Truthy(a) == ~a.isNone /\ a.val # <<>>

\* Part.from_text(text_prompt)
FromText(t) == [kind |-> "text", text |-> t]

\* PromptParts with the audio parts put before the image parts
PromptPartsAudioFirst(text_prompt, image_parts, audio_parts, video_parts) ==
    (IF TruthyText(text_prompt) THEN <<FromText(text_prompt.val)>> ELSE <<>>)
    \o (IF Truthy(audio_parts) THEN audio_parts.val ELSE <<>>)
    \o (IF Truthy(image_parts) THEN image_parts.val ELSE <<>>)
    \o (IF Truthy(video_parts) THEN video_parts.val ELSE <<>>)

\* prompt_parts as send_message builds it
PromptParts(text_prompt, image_parts, audio_parts, video_parts) ==
    (IF TruthyText(text_prompt) THEN <<FromText(text_prompt.val)>> ELSE <<>>)
    \o (IF Truthy(image_parts) THEN image_parts.val ELSE <<>>)
    \o (IF Truthy(audio_parts) THEN audio_parts.val ELSE <<>>)
    \o (IF Truthy(video_parts) THEN video_parts.val ELSE <<>>)

\* the arguments of a call, the agent with or without a chat session
InitMM ==
    /\ CamInit /\ AudInit /\ AppInit
    /\ mmChat \in {None, 1}
    /\ mmIn \in [text : TextArgs, image : ListArgs("image"),
                 audio : ListArgs("audio"), video : ListArgs("video")]
    /\ mmCalls = <<>>
    /\ mmOut = [kind |-> "none", val |-> ""]
    /\ mmReply = [kind |-> "none", val |-> ""]

\* send_message(text_prompt, image_parts, audio_parts, video_parts); the
\* chat session answers with a response that has a text, with a response
\* whose text property raises, or raises.
SendMessage ==
    /\ mmOut.kind = "none"
    /\ mmChat' = IF mmChat = None THEN 1 ELSE mmChat      \* start_chat()
    /\ IF ~TruthyText(mmIn.text) /\ ~Truthy(mmIn.image) /\ ~Truthy(mmIn.audio)
          /\ ~Truthy(mmIn.video)
       THEN /\ mmOut' = [kind |-> "raise", val |-> "ValueError"]
            /\ UNCHANGED <<mmCalls, mmReply>>
       ELSE /\ mmCalls' = Append(mmCalls,
                   PromptParts(mmIn.text, mmIn.image, mmIn.audio, mmIn.video))
            /\ \/ \E r \in ReplyTexts : mmReply' = [kind |-> "return", val |-> r]
               \/ \E e \in Exceptions : mmReply' = [kind |-> "raise", val |-> e]
               \/ mmReply' = [kind |-> "notext", val |-> ""]
            /\ mmOut' = IF mmReply'.kind = "notext"     \* response.text raises
                        THEN [kind |-> "raise", val |-> "NoText"]
                        ELSE mmReply'
    /\ UNCHANGED <<camVars, audVars, appVars, mmIn>>

NextMM == SendMessage

SpecMM == InitMM /\ [][NextMM]_vars


\* ================================================================ claims
\* A thread is executing _monitor_loop from thread.start() until it returns.
Executing == {t \in Tids : Alive(t)}

\* C1: for one CameraAgent, after any sequence of start() and stop() calls,
\* at most one background thread is executing _monitor_loop at any time.
C1_AtMostOneMonitorThread == Cardinality(Executing) <= 1

\* C2: at every instant at which a reader can open them, camera_log.json
\* and audio_log.json each hold a complete, valid JSON array, also while
\* the file is being rewritten.
C2_LogsAlwaysCompleteJson == camFile.form = "ok" /\ audFile.form = "ok"

\* A session is live once registered and until its queue is closed.
Live(s) == queue[s] = "open"

\* C3: AudioAgent keeps at most one live session per user_id: a session that
\* start_adk_session replaces is closed and removed before the new one is
\* registered, and when start_adk_session returns, active_adk_sessions[u]
\* is the session it created.
C3_OneLiveSessionPerUser ==
    /\ [](/\ \A s1, s2 \in Conns :
               Live(s1) /\ Live(s2) /\ cuser[s1] = cuser[s2] => s1 = s2
          /\ \A s \in Conns : closer[s].how # "overwritten")
    /\ [][\A c \in Conns :
            cpc[c] = "creating" /\ cpc'[c] = "respond"
            => active'[cuser[c]] = c /\ Live(c)']_vars

\* C4: whenever the SSE stream of GET /events/{user_id} ends, for any
\* reason, stop_adk_session(user_id) has run: user_id has no entry in
\* active_adk_sessions and the queue of the session the stream was
\* iterating is closed.
C4_StreamEndClosesItsSession ==
    [][\A c \in Conns :
         (cpc[c] \in {"streaming", "errored"} /\ cpc'[c] = "done")
         => /\ active'[cuser[c]] = None
            /\ cbound[c] # None => queue'[cbound[c]] = "closed"]_vars

\* C5: a session registered by a connection stays registered and open until
\* that connection's own stream ends or a newer connection replaces it: the
\* cleanup of another connection's stream never closes or removes it.
C5_CleanupSparesOtherSessions ==
    \A s \in Conns : closer[s].how = "cleanup" => closer[s].conn = s

\* The pass of thread t is over: it is back at `while self.running`.
PassEnd(t) == tpc[t] = "loop" /\ loc[t].outcome # "none"

\* The record _log_change builds for the pass of thread t.
PassRecord(t) ==
    [ev |-> loc[t].ev,
     comment |-> IF loc[t].resp = "text" THEN "text" ELSE "placeholder"]

\* In every pass: the model is called only for a change with frame bytes,
\* a log record is written only after the call has returned, and a pass
\* without a change, or without frame bytes, calls nothing and logs nothing.
C6_Order(t) ==
    /\ loc[t].called => loc[t].changed /\ loc[t].bytes # None
    /\ loc[t].nlog > 0 \/ loc[t].nrec > 0 => loc[t].ret = "ok"
    /\ ~(loc[t].changed /\ loc[t].bytes # None)
          => ~loc[t].called /\ loc[t].nlog = 0 /\ loc[t].nrec = 0

\* C6 as stated: detect, call, log, and every model call that returns
\* without exception is followed, before the next frame is processed, by
\* exactly one record appended to the camera log.
C6_EveryReturnedCallIsLogged ==
    \A t \in Tids :
       /\ C6_Order(t)
       /\ PassEnd(t) /\ loc[t].ret = "ok"
             => /\ loc[t].nrec = 1
                /\ Len(loc[t].logs) = loc[t].nread + 1
                /\ loc[t].logs[Len(loc[t].logs)] = PassRecord(t)

\* C6 amended: every model call that returns a response whose text can be
\* read is followed, before the thread processes its next frame, by exactly
\* one call of _log_change; unless a file operation of that call fails, it
\* writes the records it read followed by exactly one record for the event,
\* with the placeholder comment when the text is empty or blank.
C6_ReadableReplyIsLoggedOnce ==
    \A t \in Tids :
       /\ C6_Order(t)
       /\ loc[t].nlog <= 1 /\ loc[t].nrec <= loc[t].nlog
       /\ PassEnd(t) /\ loc[t].ret = "ok" /\ loc[t].resp # "unreadable"
             => /\ loc[t].nlog = 1
                /\ loc[t].nrec = 1 \/ loc[t].iofail
       /\ PassEnd(t) /\ ~(loc[t].ret = "ok" /\ loc[t].resp # "unreadable")
             => loc[t].nlog = 0
       /\ loc[t].nrec = 1
             => /\ Len(loc[t].logs) = loc[t].nread + 1
                /\ loc[t].logs[Len(loc[t].logs)] = PassRecord(t)

\* A second record, with the placeholder comment, is on disk after a pass
\* whose model call returned an empty text.
C6_Witness ==
    \E t \in Tids :
       /\ PassEnd(t) /\ loc[t].resp = "empty" /\ loc[t].nrec = 1
       /\ camFile = [form |-> "ok", recs |-> loc[t].logs]
       /\ Len(camFile.recs) = 2
       /\ camFile.recs[2].comment = "placeholder"

\* C7 as stated: the loop waits the same fixed interval between any two
\* consecutive polls, whatever the outcome of the pass.
C7_SameIntervalAfterEveryPass ==
    \A t \in Tids : PassEnd(t) => loc[t].slept = SleepPass

\* C7 amended: the loop waits 0.1 s after a pass that ends without an
\* error (no change, a change without frame bytes, a change sent to the
\* model), 5 s after a failure to start the chat session, 2 s and then
\* 0.1 s after an error of the model call, 5 s after any other exception.
C7_IntervalByOutcome ==
    \A t \in Tids : PassEnd(t) =>
       loc[t].slept =
          CASE loc[t].outcome \in {"nochange", "nobytes", "sent"} -> SleepPass
            [] loc[t].outcome = "chatfail" -> SleepChatFail
            [] loc[t].outcome = "modelerr" -> SleepModelError + SleepPass
            [] loc[t].outcome = "unexpected" -> SleepUnexpected

\* A pass that ended with a model error has slept 2 s and 0.1 s.
C7_Witness ==
    \E t \in Tids : PassEnd(t) /\ loc[t].outcome = "modelerr"
                    /\ loc[t].slept = SleepModelError + SleepPass

\* The records some thread holds or the file holds.
AllRecords ==
    {camFile.recs[i] : i \in 1..Len(camFile.recs)}
    \cup UNION {{loc[t].logs[i] : i \in 1..Len(loc[t].logs)} : t \in Tids}

\* C8: when the model call for a change event raises, the exception is
\* caught, the chat session is dropped, no log record is written for that
\* event, running is left unchanged so the loop continues, and no call that
\* starts afterwards is made on the session that failed: the next event
\* sent to the model goes to a chat session started after the failure.
C8_ModelErrorDropsChat ==
    /\ [](/\ ~usedFailed
          /\ \A r \in AllRecords : r.ev \notin failedEv)
    /\ [][\A t \in Tids :
            /\ tpc[t] = "incall" /\ loc'[t].ret = "raised"
                  => tpc'[t] = "except"
            /\ tpc[t] = "except" /\ tpc'[t] # "except"
                  => /\ chat' = None
                     /\ running' = running
                     /\ loc'[t].nlog = 0
                     /\ tpc'[t] = "loop"]_vars

\* C9: there is no retry: each change event leads to at most one
\* chat.send_message call, and an event whose call or chat-session start
\* failed is never sent again in a later pass.
C9_NoRetry ==
    /\ \A e \in 1..MaxEvents : sends[e] <= 1
    /\ \A t \in Tids : loc[t].ev \in failedEv => tpc[t] = "loop"

\* Event 1 has failed and a later pass is calling the model for event 2.
C9_Witness ==
    \E t \in Tids :
       /\ tpc[t] = "incall" /\ loc[t].ev = 2
       /\ 1 \in failedEv /\ sends[1] <= 1

\* The parts a call must carry: the text part if there is a text, then the
\* image parts, the audio parts and the video parts, each list in its order.
GivenList(a) == IF a.isNone THEN <<>> ELSE a.val
ExpectedParts ==
    (IF mmIn.text.isNone \/ mmIn.text.val = "" THEN <<>>
     ELSE <<[kind |-> "text", text |-> mmIn.text.val]>>)
    \o GivenList(mmIn.image) \o GivenList(mmIn.audio) \o GivenList(mmIn.video)

HasInput ==
    \/ ~mmIn.text.isNone /\ mmIn.text.val # ""
    \/ GivenList(mmIn.image) # <<>>
    \/ GivenList(mmIn.audio) # <<>>
    \/ GivenList(mmIn.video) # <<>>

\* C10: MultimodalAgent.send_message with at least one input makes exactly
\* one chat.send_message call whose parts are the text part (if any), then
\* the image, audio and video parts in their given order; it returns that
\* call's response.text unchanged (the exception of response.text when the
\* response has none), and an exception of the call propagates unchanged.
C10_ForwardsPartsAndRelaysReply ==
    /\ mmOut.kind = "none" => mmCalls = <<>>
    /\ mmOut.kind # "none" /\ HasInput
          => /\ Len(mmCalls) = 1
             /\ mmCalls[1] = ExpectedParts
             /\ mmReply.kind \in {"return", "raise"} => mmOut = mmReply
             /\ mmReply.kind = "notext" => mmOut.kind = "raise"

\* A call that carried six parts, the text first and two different parts
\* after it, has returned r1.
C10_Witness ==
    /\ mmOut.kind = "return" /\ mmOut.val = "r1"
    /\ Len(mmCalls) = 1 /\ Len(mmCalls[1]) = 6
    /\ mmCalls[1][1].kind = "text"
    /\ mmCalls[1][2] # mmCalls[1][3]

\* The handler of POST /send is answering the request it was waiting for.
Handling == req # NoReq /\ req' = NoReq

\* The cases in which client_to_agent_handler returns an error for a JSON
\* object or value it was given.
HandlerError(u, m) ==
    \/ active[u] = None
    \/ m \in {"nomime", "nodata", "othermime"}
    \/ m = "badaudio" /\ isAudio[active[u]]
    \/ m \in {"audio", "badaudio"} /\ ~isAudio[active[u]]

\* C11: POST /send/{user_id} answers 503 when there is no AudioAgent and
\* 400 whenever client_to_agent_handler returns an error, and in every 400
\* case nothing was put on a queue and nothing was written to the audio
\* log; otherwise it answers {"status": "sent"}.  (A body that is not JSON
\* is answered 400 before the handler is called.)
C11_SendAnswers ==
    /\ [](lastSend.status = 503 <=> lastSend.status # 0 /\ ~audInst)
    /\ [][Handling =>
            IF req.msg = "badjson" \/ HandlerError(req.user, req.msg)
            THEN /\ lastSend'.status = 400
                 /\ enq' = enq
                 /\ audFile' = audFile
            ELSE /\ lastSend'.status = 200
                 /\ lastSend'.detail = "sent"]_vars

\* C19: when start_adk_session(u) fails, GET /events/{u} answers 500, u has
\* no entry in active_adk_sessions afterwards, and the entries of the other
\* users and their queues are as they were.
C19_FailedStartLeavesNoEntry ==
    [][\A c \in Conns :
         cpc[c] \in {"new", "creating"} /\ cpc'[c] = "done"
         => /\ status'[c] = 500
            /\ active'[cuser'[c]] = None
            /\ \A v \in Users \ {cuser'[c]} :
                  /\ active'[v] = active[v]
                  /\ active[v] # None
                        => /\ queue'[active[v]] = queue[active[v]]
                           /\ isAudio'[active[v]] = isAudio[active[v]]]_vars

\* A start has failed for one user while another user has a session.
C19_Witness ==
    \E c \in Conns :
       /\ status[c] = 500 /\ cpc[c] = "done"
       /\ active[cuser[c]] = None
       /\ \E v \in Users \ {cuser[c]} : active[v] # None /\ Live(active[v])

\* C20: client_to_agent_handler puts a message only on the queue of the
\* session registered for the user at that moment, and that queue is open;
\* a message for a user without a session is answered "Session not found.",
\* whatever was registered when the request arrived.
C20_SendsOnlyOnLiveSession ==
    /\ [](\A u \in Users : active[u] # None => Live(active[u]))
    /\ [][/\ \A s \in Conns :
               enq'[s] # enq[s]
               => /\ Handling
                  /\ active[req.user] = s
                  /\ Live(s)
                  /\ enq'[s] = enq[s] + 1
          /\ Handling /\ req.msg # "badjson" /\ active[req.user] = None
               => /\ lastSend'.detail = "Session not found."
                  /\ enq' = enq]_vars

\* A message was put on the queue of a session that replaced the one
\* registered when the request arrived.
C20_Witness ==
    /\ lastSend.status = 200
    /\ lastSend.sess0 # None /\ lastSend.sess # None
    /\ lastSend.sess # lastSend.sess0
    /\ enq[lastSend.sess] = 1 /\ queue[lastSend.sess0] = "closed"

\* C14: without a project id or a location neither agent is created, and
\* /events/{user_id} and /send/{user_id} answer 503 from then on; otherwise
\* a CameraAgent that could not be created or started leaves
\* camera_agent_instance None whatever becomes of the AudioAgent, and an
\* AudioAgent that could not be created leaves audio_agent_instance None and
\* the CameraAgent running.
C14_StartupIndependence ==
    /\ [](/\ booted = "noconfig" => ~camInst /\ ~audInst /\ nthreads = 0
          /\ booted # "yes" => ~running
          /\ ~audInst
                => /\ \A c \in Conns : cpc[c] # "new" => status[c] = 503
                   /\ lastSend.status \in {0, 503}
                   /\ req = NoReq
                   /\ \A u \in Users : active[u] = None
          /\ camInst => running /\ nthreads = 1 /\ tpc[1] = "begin")
    /\ [][booted # "no" => camInst' = camInst /\ audInst' = audInst]_vars

\* The AudioAgent serves a session although the CameraAgent was not created.
C14_Witness ==
    /\ booted = "yes" /\ ~camInst /\ audInst
    /\ \E u \in Users : active[u] # None /\ Live(active[u])

CameraStatus == IF camInst /\ running THEN "running" ELSE "stopped"

\* C13: whenever the event loop can serve GET /agent/camera/status (it is
\* not inside start() or stop()), the status reported is "running" exactly
\* when the CameraAgent exists and a thread is executing _monitor_loop.
C13_StatusTellsThreadState ==
    mainpc = "idle" =>
        (CameraStatus = "running" <=> camInst /\ Executing # {})

\* The camera agent when every capture and SDK call returns and the
\* scheduler lets every live thread run: each thread keeps taking steps.
SpecLive == Spec /\ \A t \in Tids : WF_vars(MonitorStep(t))

\* C15: a thread that was executing _monitor_loop when stop() cleared
\* running eventually leaves the loop, releases the capture and ends,
\* whatever start() and stop() calls follow.
C15_StoppedThreadEnds == \A t \in Tids : (t \in stopped) ~> (tpc[t] = "done")

\* The positions of a thread inside a pass of the while loop.
InPass ==
    {"frame", "image", "imgwrite", "check", "startchat", "starting", "send",
     "incall", "except", "logread", "logopen", "logdump", "logclose"}

\* C16: no step of a thread inside a pass, an exception included, leaves the
\* loop or changes running: from inside a pass the thread goes on in the
\* pass or back to `while self.running`, and from there it leaves the loop
\* only when it reads running as false.
C16_ExceptionsKeepLoop ==
    [][\A t \in Tids :
         /\ (tpc[t] \in InPass /\ tpc'[t] # tpc[t]) =>
               /\ tpc'[t] \in InPass \cup {"loop"}
               /\ running' = running
         /\ (tpc[t] = "loop" /\ tpc'[t] # "loop") =>
               tpc'[t] = IF running THEN "frame" ELSE "release"]_vars

\* A pass ended by an exception (of frame processing, of the chat start or
\* of the model call) and the thread is back at the test with running set.
C16_Witness ==
    \E t \in Tids :
        /\ tpc[t] = "loop"
        /\ running
        /\ loc[t].outcome \in {"unexpected", "chatfail", "modelerr"}

\* C17: a thread whose start_capture() failed sets running to false and
\* ends; it has made no pass, and its last step calls no model and writes
\* neither the image nor the log.  While the thread created last is one
\* that ended this way, running is false, so the next start() creates a
\* thread.
C17_CaptureFailureEndsThread ==
    /\ [][\A t \in Tids :
            (tpc[t] = "capfail" /\ tpc'[t] # "capfail") =>
               /\ tpc'[t] = "done"
               /\ ~running'
               /\ [loc'[t] EXCEPT !.outcome = "none"] = NoLocals
               /\ UNCHANGED <<image, camFile, sends, chat, nsess>>]_vars
    /\ [](\A t \in Tids :
            (t = nthreads /\ loc[t].outcome = "nocapture") => ~running)
    /\ [][(~running /\ running') =>
            /\ nthreads' = nthreads + 1
            /\ thread' = nthreads'
            /\ tpc'[nthreads'] = "begin"]_vars

\* The first thread ended because the capture could not be started, no
\* stop() was needed, and a later start() has launched a second thread.
C17_Witness ==
    /\ loc[1].outcome = "nocapture"
    /\ tpc[1] = "done"
    /\ stopped = {}
    /\ running
    /\ thread = 2
    /\ Alive(2)

\* C18: when process_frame_for_changes returned frame bytes, the loop opens
\* the latest-image file before it decides about the model call, and when
\* its write has completed the file holds exactly those bytes; a failure of
\* the open or of the write does not keep a change from going on to the
\* model call.
C18_ImageSavedBeforeCall ==
    [][\A t \in Tids :
         /\ (tpc'[t] = "check" /\ tpc[t] # "check") =>
               tpc[t] \in {"image", "imgwrite"}
         /\ (tpc[t] \in {"image", "imgwrite"} /\ tpc'[t] # tpc[t]
                /\ loc[t].changed) => tpc'[t] \in {"imgwrite", "check"}
         /\ (tpc[t] = "imgwrite" /\ tpc'[t] # "imgwrite") =>
               image' \in {loc[t].bytes, CutShort}]_vars

\* Connection c's handler calls stop_adk_session in this step: at the start
\* of start_adk_session, or in the finally clause of event_generator.
StopCalled(c) ==
    \/ cpc[c] = "new" /\ cpc'[c] # "new"
    \/ /\ cpc[c] \in {"streaming", "errored", "ystatus", "ytext"}
       /\ cpc'[c] = "done"

\* C21: stop_adk_session(u) on a registered session finds its queue open,
\* closes it and removes the entry; for a user without a session it changes
\* nothing.  No queue is closed twice, a closed queue stays closed, and an
\* entry that stop_adk_session removed has had its queue closed.
C21_StopIsIdempotent ==
    /\ [](\A s \in Conns :
            /\ closer[s].n <= 1
            /\ closer[s].how \in {"start", "cleanup"} =>
                  closer[s].n = 1 /\ queue[s] = "closed")
    /\ [][\A c \in Conns : StopCalled(c) =>
            LET u == cuser'[c]
                s == active[u]
            IN  IF s # None
                THEN /\ queue[s] = "open" /\ queue'[s] = "closed"
                     /\ active'[u] = None
                     /\ \A o \in Conns \ {s} : queue'[o] = queue[o]
                     /\ \A v \in Users \ {u} : active'[v] = active[v]
                ELSE UNCHANGED <<active, queue, closer>>]_vars

\* Both connections of one user are done: the first session was closed by
\* the second start, the second by its own stream end, and the stream end
\* of the first, which found no session, came last.
C21_Witness ==
    /\ closer[1].how = "start" /\ closer[1].n = 1
    /\ closer[2].how = "cleanup" /\ closer[2].n = 1
    /\ cuser[1] = cuser[2]
    /\ lastEnd.conn = 1
    /\ cpc[1] = "done" /\ cpc[2] = "done"

\* C22: with a session registered, a text/plain message is put on its queue
\* with send_content whatever the session's mode, an audio message that
\* decodes is put on it with send_realtime when the session was started
\* with is_audio, and every other message is answered with an error and
\* nothing is put on a queue.  The audio log gets one record, with speaker
\* "user", for a non-empty text and is left alone otherwise; the handler
\* leaves active_adk_sessions alone.
C22_RoutesByMimeAndMode ==
    [][(Handling /\ req.msg # "badjson") =>
         LET u == req.user
             m == req.msg
             s == active[u]
             r == lastSend'
         IN  /\ active' = active
             /\ IF s # None /\ m \in {"text", "emptytext", "textnotstr"}
                THEN r.status = 200 /\ r.sess = s /\ r.via = "content"
                ELSE IF s # None /\ m = "audio" /\ isAudio[s]
                THEN r.status = 200 /\ r.sess = s /\ r.via = "realtime"
                ELSE r.status = 400 /\ r.sess = None /\ enq' = enq
             /\ IF s # None /\ m = "text"
                THEN audFile'.recs =
                        Append(audFile.recs, [speaker |-> "user", text |-> <<m>>])
                ELSE audFile' = audFile]_vars

\* The texts of the "agent" records of the audio log that hold a turn of
\* connection c, in the order of the log.
AgentTexts(c) ==
    LET turns == {due[c][i] : i \in 1..Len(due[c])}
        recs == SelectSeq(audFile.recs,
                    LAMBDA r : r.speaker = "agent" /\ r.text \in turns)
    IN  [i \in 1..Len(recs) |-> recs[i].text]

RECURSIVE Concat(_)
Concat(ss) == IF ss = <<>> THEN <<>> ELSE Head(ss) \o Concat(Tail(ss))

\* C23: the text of each turn is logged exactly once.  Once the handler is
\* past the status message of a turn end, the "agent" records of its stream
\* are, one per turn end that found text and in that order, the pieces
\* yielded in that turn in their order of arrival; a turn end without text
\* adds no record, and after a turn end the accumulator is empty.
C23_TurnTextLoggedOnce ==
    /\ [](\A c \in Conns :
            /\ cpc[c] # "ystatus" => AgentTexts(c) = due[c]
            /\ \E k \in 0..Len(yielded[c]) :
                  Concat(due[c]) = SubSeq(yielded[c], 1, k))
    /\ [](\A i \in 1..Len(audFile.recs) :
            audFile.recs[i].speaker = "agent" =>
               \E c \in Conns : \E k \in 1..Len(due[c]) :
                  audFile.recs[i].text = due[c][k])
    /\ [][\A c \in Conns :
            (cpc[c] = "ystatus" /\ cpc'[c] = "streaming") =>
               textTurn'[c] = <<>>]_vars

\* C24: when the stream of a connection has ended, every text piece its
\* handler yielded is in some "agent" record of the audio log.
C24_YieldedTextIsLogged ==
    \A c \in Conns : cpc[c] = "done" =>
        \A i \in 1..Len(yielded[c]) :
            \E j \in 1..Len(audFile.recs) :
                /\ audFile.recs[j].speaker = "agent"
                /\ \E k \in 1..Len(audFile.recs[j].text) :
                      audFile.recs[j].text[k] = yielded[c][i]

\* A step in which _log_transcription is called: by the POST /send handler
\* for a text, by a stream handler going on after a turn end with text.
LogCalls ==
    (IF Handling /\ lastSend'.logged
     THEN {[speaker |-> "user", text |-> <<req.msg>>]}
     ELSE {})
    \cup {[speaker |-> "agent", text |-> textTurn[c]] :
            c \in {d \in Conns : /\ cpc[d] = "ystatus"
                                 /\ cpc'[d] = "streaming"
                                 /\ textTurn[d] # <<>>}}

=============================================================================
